---- MODULE Spec2Model ----
(***************************************************************************)
(* Orange Sage: scan orchestration and finding aggregation.                *)
(*                                                                         *)
(* The model covers AgentManager (start_scan, _execute_agent, cancel_scan),*)
(* the comprehensive scan driver (_execute_comprehensive_scan and its four *)
(* phases) and the /start endpoint, over one shared set of Scan, Agent and *)
(* Finding records.  The persistence collaborator is a record store: an    *)
(* object handed to db.add stays pending in its session until the next     *)
(* commit of that session writes it to the table.  Every await of a        *)
(* collaborator is a suspension point, so one action is the code between   *)
(* two suspension points of one task.                                      *)
(***************************************************************************)
EXTENDS Integers, Sequences, FiniteSets, TLC

\* ---------------------------------------------------------------- bounds
MaxScans == 1
MaxFindings == 1
MaxCount == 5
MaxListed == 2
MaxElapsed == 600
MaxSubFindings == 1

\* ------------------------------------------------------ program constants
DemoFindingsCount == 8
SampleFindingsCount == 2

ScanIds == 1..MaxScans

VARIABLES
    scans,            \* scans table: id -> Scan record
    kind,             \* which endpoint created the scan: "agent", "comprehensive", "simple"
    pc,               \* position of the scan's background task
    drv,              \* comprehensive driver: phase results of the run
    findings,         \* findings table, in insertion order
    session,          \* per scan: objects added to the run's session, not yet committed
    agents,           \* Agent objects created by _create_root_agent
    dbAgents,         \* ids of the Agent objects that are rows of the agents table
    active_agents,    \* AgentManager.active_agents
    active_scans,     \* AgentManager.active_scans
    active_sandboxes, \* SandboxService.active_sandboxes (keys)
    docker_client,    \* SandboxService.docker_client is not None
    cancel_requested, \* history: scans for which cancel_scan was called
    left_pending,     \* history: scans whose status was ever not PENDING
    assessed,         \* the findings handed to _assess_risk_level, per severity
    risk_assessment,  \* what _assess_risk_level returned for them
    analysis_summary, \* what _generate_analysis_summary returned for them
    finding_list,     \* the findings handed to the other advanced-analysis functions
    correlation_results, \* what _correlate_findings returned for them
    recommendations,  \* what _generate_security_recommendations returned for them
    status_query,     \* the scan row and clock reading of a comprehensive-status request
    progress,         \* the response to that request, with the progress it reported
    active_tasks,     \* MicroservicesOrchestrator.active_tasks (keys)
    analysis_session, \* the analysis_session dict of the analysis
    analysis_pc,      \* position of start_comprehensive_analysis
    analysis_results, \* what asyncio.gather returned, in dispatch order
    analysis_returned, \* what start_comprehensive_analysis returned
    response          \* what the last AgentManager call on an unknown scan id reported

scan_vars == <<scans, kind, pc, drv, findings, session, agents, dbAgents,
               active_agents, active_scans, active_sandboxes, docker_client,
               cancel_requested, left_pending>>

assessment_vars == <<assessed, risk_assessment, analysis_summary>>

advanced_vars == <<finding_list, correlation_results, recommendations>>

progress_vars == <<status_query, progress>>

orchestrator_vars == <<active_tasks, analysis_session, analysis_pc,
                       analysis_results, analysis_returned>>

\* Everything the scan orchestration actions leave alone.
detached_vars == <<assessment_vars, advanced_vars, progress_vars,
                   orchestrator_vars, response>>

vars == <<scan_vars, detached_vars>>

\* ------------------------------------------------------------ data model
ScanStatus == {"pending", "running", "completed", "failed", "cancelled"}
AgentStatus == {"pending", "running", "completed", "failed", "cancelled"}
TerminalStatus == {"completed", "failed", "cancelled"}

\* Of a timestamp column the model keeps whether it is NULL or holds a value.
NoTime == "none"
utcnow == "set"
NoError == "none"
NoId == <<>>
NoSummary == [kind |-> "none"]
NoResult == [kind |-> "none"]

\* SeverityLevel, and a findings list as _assess_risk_level sees it: the
\* function uses the list's length and the number of its entries of each
\* severity, so a list is kept as the count of its findings per severity.
Severity == {"critical", "high", "medium", "low", "info"}
FindingCounts == [Severity -> 0..MaxCount]
NoFindings == [sev \in Severity |-> 0]
NoAssessment == [kind |-> "none"]
NoRecommendations == <<"none">>
NoQuery == [kind |-> "none"]
NoProgress == [kind |-> "none"]
NoSession == [kind |-> "none"]
NoReturn == [kind |-> "none"]
NoResponse == [kind |-> "none"]

\* Scan(...) as the creating endpoints construct it: status PENDING, the
\* nullable columns unset.
Scan ==
    [status |-> "pending", started_at |-> NoTime, finished_at |-> NoTime,
     summary |-> NoSummary, error_message |-> NoError]

AgentId(s) == <<"agent", s>>
ContainerId(s) == <<"container", s>>
PentestAgentId(s) == <<"pentest", s>>
\* created_by_agent='microservices', the provenance of the findings of the
\* Microservices-Analysis phase.
MicroservicesId == <<"microservices">>

\* Agent(...) as _create_root_agent constructs it.
Agent(s) ==
    [agent_id |-> AgentId(s), status |-> "pending", scan_id |-> s,
     agent_type |-> "OrangeSageAgent", sandbox_id |-> NoId,
     started_at |-> NoTime, finished_at |-> NoTime,
     final_result |-> NoResult, error_message |-> NoError]

NoDrv ==
    [pentest |-> "none", microservices |-> "none", advanced |-> "none",
     report |-> "none", existing_findings |-> {}, phase_stored |-> {}]

\* ---------------------------------------------------- persistence helpers
\* Rows written when a session holding `pend` commits: ids continue the
\* table's autoincrement sequence.
Flush(pend) ==
    [i \in 1..Len(pend) |->
        [id |-> Len(findings) + i, scan_id |-> pend[i].scan_id,
         created_by_agent |-> pend[i].created_by_agent]]

FindingIds(seq) == {seq[i].id : i \in 1..Len(seq)}

FindingsOf(s) == {i \in 1..Len(findings) : findings[i].scan_id = s}

LeftPending(sc) == left_pending \cup {s \in DOMAIN sc : sc[s].status # "pending"}

\* --------------------------------------------------------------- Init
ScanInit ==
    /\ scans = <<>>
    /\ kind = <<>>
    /\ pc = <<>>
    /\ drv = <<>>
    /\ findings = <<>>
    /\ session = <<>>
    /\ agents = <<>>
    /\ dbAgents = {}
    /\ active_agents = {}
    /\ active_scans = {}
    /\ active_sandboxes = {}
    /\ docker_client \in BOOLEAN
    /\ cancel_requested = {}
    /\ left_pending = {}

\* No advanced-analysis function, status request, analysis or call on an
\* unknown id has run.
AssessmentIdle ==
    /\ assessed = NoFindings
    /\ risk_assessment = NoAssessment
    /\ analysis_summary = NoAssessment

AdvancedIdle ==
    /\ finding_list = <<>>
    /\ correlation_results = NoAssessment
    /\ recommendations = NoRecommendations

ProgressIdle ==
    /\ status_query = NoQuery
    /\ progress = NoProgress

\* MicroservicesOrchestrator.__init__: active_tasks = {}.
OrchestratorInit ==
    /\ active_tasks = {}
    /\ analysis_session = NoSession
    /\ analysis_pc = "idle"
    /\ analysis_results = <<>>
    /\ analysis_returned = NoReturn

CallerIdle == response = NoResponse

Init ==
    /\ ScanInit
    /\ AssessmentIdle
    /\ AdvancedIdle
    /\ ProgressIdle
    /\ OrchestratorInit
    /\ CallerIdle

\* ------------------------------------------------------ scan creation
\* db.add(scan); db.commit(): the new row gets the next id.
AddScan(k, p) ==
    LET s == Len(scans) + 1 IN
    /\ s \in ScanIds
    /\ scans' = Append(scans, Scan)
    /\ kind' = Append(kind, k)
    /\ pc' = Append(pc, p)
    /\ drv' = Append(drv, NoDrv)
    /\ session' = Append(session, <<>>)
    /\ left_pending' = left_pending
    /\ UNCHANGED detached_vars
    /\ UNCHANGED <<findings, agents, dbAgents, active_agents, active_scans,
                   active_sandboxes, docker_client, cancel_requested>>

\* POST /scans: creates the scan and schedules AgentManager.start_scan.
create_scan == AddScan("agent", "start_scan")

\* POST .../comprehensive-scan: creates the scan and schedules the driver.
start_comprehensive_scan == AddScan("comprehensive", "driver")

\* POST /start, up to the commit that inserts the PENDING scan.
start_simple_scan_create == AddScan("simple", "demo")

\* ------------------------------------------------------- AgentManager
\* _create_root_agent builds the Agent object; it hands nothing to db.add,
\* so no commit writes it to the agents table.
create_root_agent_added(s) == {}

\* start_scan, normal path: lines 38-69, up to asyncio.create_task.
start_scan(s) ==
    /\ s \in DOMAIN scans
    /\ pc[s] = "start_scan"
    /\ scans' = [scans EXCEPT ![s].status = "running", ![s].started_at = utcnow]
    /\ active_scans' = active_scans \cup {s}
    /\ agents' = agents @@ (AgentId(s) :> Agent(s))
    /\ dbAgents' = dbAgents \cup create_root_agent_added(s)
    /\ pc' = [pc EXCEPT ![s] = "execute_agent"]
    /\ left_pending' = LeftPending(scans')
    /\ UNCHANGED detached_vars
    /\ UNCHANGED <<kind, drv, findings, session, active_agents,
                   active_sandboxes, docker_client, cancel_requested>>

\* start_scan, exception path: db.commit() of line 45 raises, so the
\* assignments of lines 43-44 are not written; the handler of lines 71-78
\* marks the scan FAILED with the message, commits and re-raises.
start_scan_except(s) ==
    /\ s \in DOMAIN scans
    /\ pc[s] = "start_scan"
    /\ scans' = [scans EXCEPT ![s].status = "failed",
                              ![s].error_message = "commit failed"]
    /\ pc' = [pc EXCEPT ![s] = "done"]
    /\ left_pending' = LeftPending(scans')
    /\ UNCHANGED detached_vars
    /\ UNCHANGED <<kind, drv, findings, session, agents, dbAgents,
                   active_agents, active_scans, active_sandboxes,
                   docker_client, cancel_requested>>

\* _execute_agent, lines 104-111: RUNNING, started_at, commit, then the
\* task waits for create_sandbox.
execute_agent_begin(s) ==
    /\ s \in DOMAIN scans
    /\ pc[s] = "execute_agent"
    /\ agents' = [agents EXCEPT ![AgentId(s)].status = "running",
                                ![AgentId(s)].started_at = utcnow]
    /\ pc' = [pc EXCEPT ![s] = "create_sandbox"]
    /\ left_pending' = left_pending
    /\ UNCHANGED detached_vars
    /\ UNCHANGED <<scans, kind, drv, findings, session, dbAgents,
                   active_agents, active_scans, active_sandboxes,
                   docker_client, cancel_requested>>

\* AgentFactory.agent_types
agent_types == {"OrangeSageAgent", "ReconnaissanceAgent", "VulnerabilityAgent"}

\* create_sandbox returned a container: lines 112-134.  The sandbox service
\* registers the sandbox under the agent id and reports the container id as
\* workspace_id; the factory builds the instance; the agent is registered.
execute_agent_sandbox_created(s) ==
    /\ s \in DOMAIN scans
    /\ pc[s] = "create_sandbox"
    /\ docker_client
    /\ agents[AgentId(s)].agent_type \in agent_types
    /\ active_sandboxes' = active_sandboxes \cup {AgentId(s)}
    /\ agents' = [agents EXCEPT ![AgentId(s)].sandbox_id = ContainerId(s)]
    /\ active_agents' = active_agents \cup {AgentId(s)}
    /\ pc' = [pc EXCEPT ![s] = "execute"]
    /\ left_pending' = left_pending
    /\ UNCHANGED detached_vars
    /\ UNCHANGED <<scans, kind, drv, findings, session, dbAgents,
                   active_scans, docker_client, cancel_requested>>

\* destroy_sandbox(key): removes the entry stored under key, if there is one.
destroy_sandbox(key) ==
    IF key \in active_sandboxes THEN active_sandboxes \ {key} ELSE active_sandboxes

\* A handler that marks the agent FAILED and records neither the message nor
\* the finishing time.
execute_agent_except_status_only(a, e) == [a EXCEPT !.status = "failed"]

\* The except clause of _execute_agent, lines 147-152, for the exception
\* whose message is e.
execute_agent_except(a, e) ==
    [a EXCEPT !.status = "failed", !.error_message = e, !.finished_at = utcnow]

\* create_sandbox failed: without Docker the mock result has no
\* "workspace_id" (KeyError at line 112); with Docker containers.run raised.
\* Handler of lines 147-152, then the finally block.
execute_agent_sandbox_except(s) ==
    /\ s \in DOMAIN scans
    /\ pc[s] = "create_sandbox"
    /\ agents' = [agents EXCEPT ![AgentId(s)] =
          execute_agent_except(agents[AgentId(s)],
              IF docker_client THEN "docker error" ELSE "'workspace_id'")]
    /\ active_agents' = active_agents \ {AgentId(s)}
    /\ active_sandboxes' =
          IF agents[AgentId(s)].sandbox_id # NoId
          THEN destroy_sandbox(agents[AgentId(s)].sandbox_id)
          ELSE active_sandboxes
    /\ pc' = [pc EXCEPT ![s] = "done"]
    /\ left_pending' = left_pending
    /\ UNCHANGED detached_vars
    /\ UNCHANGED <<scans, kind, drv, findings, session, dbAgents,
                   active_scans, docker_client, cancel_requested>>

\* OrangeSageAgent.execute, lines 46-68: the result when every phase
\* returned, success with the sample findings of _generate_findings.
OrangeSageAgent_execute(s) ==
    [success |-> TRUE,
     findings |-> [i \in 1..SampleFindingsCount |-> "finding_data"]]

\* OrangeSageAgent.execute, lines 70-77: the result when a phase raised the
\* exception whose message is e.
OrangeSageAgent_execute_except(e) ==
    [success |-> FALSE, error |-> e, findings |-> <<>>]

\* The results agent_instance.execute() can hand to _execute_agent.
AgentResults(s) ==
    {OrangeSageAgent_execute(s), OrangeSageAgent_execute_except("phase error")}

\* A storing loop whose exception is swallowed before anything is added.
process_agent_results_added_none(agent, result) == <<>>

\* The storing loop of _process_agent_results, lines 167-187: one Finding per
\* entry of the result's findings, with the agent's scan id and agent id.
process_agent_results_added(agent, result) ==
    [i \in 1..Len(result.findings) |->
        [scan_id |-> agent.scan_id, created_by_agent |-> agent.agent_id]]

\* _process_agent_results writes scan.summary and leaves scan.status alone.
process_agent_results_scan(sc, result) ==
    [sc EXCEPT !.summary = [kind |-> "agent",
                            total_findings |-> Len(result.findings),
                            agents_completed |-> 1]]

\* agent_instance.execute() returned: lines 134-145 and the finally block.
\* _process_agent_results adds one Finding per entry, commits, then writes
\* the scan summary; the agent becomes COMPLETED.  Nothing reads the result's
\* success flag.
execute_agent_return(s, result) ==
    /\ s \in DOMAIN scans
    /\ pc[s] = "execute"
    /\ result \in AgentResults(s)
    /\ findings' = findings \o
          Flush(session[s] \o process_agent_results_added(agents[AgentId(s)], result))
    /\ session' = [session EXCEPT ![s] = <<>>]
    /\ scans' = [scans EXCEPT ![s] = process_agent_results_scan(scans[s], result)]
    /\ agents' = [agents EXCEPT ![AgentId(s)].status = "completed",
                                ![AgentId(s)].finished_at = utcnow,
                                ![AgentId(s)].final_result = result]
    /\ active_agents' = active_agents \ {AgentId(s)}
    /\ active_sandboxes' =
          IF agents[AgentId(s)].sandbox_id # NoId
          THEN destroy_sandbox(agents[AgentId(s)].sandbox_id)
          ELSE active_sandboxes
    /\ pc' = [pc EXCEPT ![s] = "done"]
    /\ left_pending' = LeftPending(scans')
    /\ UNCHANGED detached_vars
    /\ UNCHANGED <<kind, drv, dbAgents, active_scans, docker_client,
                   cancel_requested>>

\* cancel_scan's query as it would read were every Agent object a row.
running_agents_of_objects(s) ==
    {a \in DOMAIN agents : agents[a].scan_id = s /\ agents[a].status = "running"}

\* The rows cancel_scan's query returns: agents table, this scan, RUNNING.
running_agents(s) ==
    {a \in dbAgents : agents[a].scan_id = s /\ agents[a].status = "running"}

\* get_scan_agents, lines 232-249: the rows of the agents table that belong
\* to the scan.
get_scan_agents(s) == {a \in dbAgents : agents[a].scan_id = s}

\* cancel_scan, lines 253-286.  The scan is looked up by id only; its status
\* is not examined.  instance.cancel() of the stub agents does nothing.
cancel_scan(s) ==
    /\ s \in DOMAIN scans
    /\ scans' = [scans EXCEPT ![s].status = "cancelled", ![s].finished_at = utcnow]
    /\ agents' = [a \in DOMAIN agents |->
                    IF a \in running_agents(s)
                    THEN [agents[a] EXCEPT !.status = "cancelled", !.finished_at = utcnow]
                    ELSE agents[a]]
    /\ cancel_requested' = cancel_requested \cup {s}
    /\ left_pending' = LeftPending(scans')
    /\ UNCHANGED detached_vars
    /\ UNCHANGED <<kind, pc, drv, findings, session, dbAgents, active_agents,
                   active_scans, active_sandboxes, docker_client>>

\* ------------------------------------------- comprehensive scan driver
Outcome == {"ok", "bad"}

\* results['findings'] of a phase: each entry is a mapping the loop can
\* store ("ok") or a value on which finding_data.get raises ("bad").
FindingLists ==
    UNION {{[i \in 1..n |-> "ok"],
            [i \in 1..(n + 1) |-> IF i <= n THEN "ok" ELSE "bad"]} :
           n \in 0..MaxFindings}

\* Outcomes of a phase's collaborator call that carry no findings list.
Raised == <<"raise">>
ErrorResult == <<"error_result">>

\* What PentestingAgent.execute_pentest can hand to _run_ai_pentesting.
PentestOutcomes == {Raised} \cup FindingLists

\* What start_comprehensive_analysis can hand to _run_microservices_analysis.
MicroservicesOutcomes == {ErrorResult} \cup FindingLists

FirstBad(list) ==
    IF \E i \in 1..Len(list) : list[i] = "bad"
    THEN CHOOSE i \in 1..Len(list) :
            list[i] = "bad" /\ \A j \in 1..(i - 1) : list[j] = "ok"
    ELSE 0

\* The storing loop of a phase followed by its commit (lines 430-447 and
\* 483-500): each entry is added to the session in turn; an entry that
\* raises ends the phase in its except clause, before the commit and without
\* a rollback, so the entries added so far stay pending in the session.
store_findings(s, list, by) ==
    LET bad == FirstBad(list)
        n == IF bad = 0 THEN Len(list) ELSE bad - 1
        added == [i \in 1..n |-> [scan_id |-> s, created_by_agent |-> by]]
        pend == session[s] \o added
    IN  IF bad # 0
        THEN [result |-> "error", session |-> pend, rows |-> <<>>]
        ELSE [result |-> "ok", session |-> <<>>, rows |-> Flush(pend)]

phase_after_skipping(p) ==
    CASE p = "driver" -> "pentest"
      [] p = "pentest" -> "advanced"
      [] p = "microservices" -> "advanced"
      [] p = "advanced" -> "report"
      [] p = "report" -> "done"

\* The order in which the driver awaits its phases (lines 367-383).
phase_after(p) ==
    CASE p = "driver" -> "pentest"
      [] p = "pentest" -> "microservices"
      [] p = "microservices" -> "advanced"
      [] p = "advanced" -> "report"
      [] p = "report" -> "done"

\* _execute_comprehensive_scan, lines 354-363.
execute_comprehensive_scan_begin(s) ==
    /\ s \in DOMAIN scans
    /\ pc[s] = "driver"
    /\ scans' = [scans EXCEPT ![s].status = "running", ![s].started_at = utcnow]
    /\ findings' = findings \o Flush(session[s])
    /\ session' = [session EXCEPT ![s] = <<>>]
    /\ pc' = [pc EXCEPT ![s] = phase_after("driver")]
    /\ left_pending' = LeftPending(scans')
    /\ UNCHANGED detached_vars
    /\ UNCHANGED <<kind, drv, agents, dbAgents, active_agents, active_scans,
                   active_sandboxes, docker_client, cancel_requested>>

\* _run_ai_pentesting: execute_pentest raised, or returned a result whose
\* findings are stored.
run_ai_pentesting(s, out) ==
    /\ s \in DOMAIN scans
    /\ pc[s] = "pentest"
    /\ LET r == IF out = Raised
                THEN [result |-> "error", session |-> session[s], rows |-> <<>>]
                ELSE store_findings(s, out, PentestAgentId(s))
       IN /\ findings' = findings \o r.rows
          /\ session' = [session EXCEPT ![s] = r.session]
          /\ drv' = [drv EXCEPT ![s].pentest = r.result,
                                ![s].phase_stored = @ \cup FindingIds(r.rows)]
    /\ pc' = [pc EXCEPT ![s] = phase_after("pentest")]
    /\ left_pending' = left_pending
    /\ UNCHANGED detached_vars
    /\ UNCHANGED <<scans, kind, agents, dbAgents, active_agents, active_scans,
                   active_sandboxes, docker_client, cancel_requested>>

\* _run_microservices_analysis: start_comprehensive_analysis returned its
\* error result {'error', 'status': 'failed'} (no findings to store, the
\* commit still runs, the error result is returned), or a result whose
\* findings are stored.
run_microservices_analysis(s, out) ==
    /\ s \in DOMAIN scans
    /\ pc[s] = "microservices"
    /\ LET r == IF out = ErrorResult
                THEN [result |-> "error", session |-> <<>>,
                      rows |-> Flush(session[s])]
                ELSE store_findings(s, out, MicroservicesId)
       IN /\ findings' = findings \o r.rows
          /\ session' = [session EXCEPT ![s] = r.session]
          /\ drv' = [drv EXCEPT ![s].microservices = r.result,
                                ![s].phase_stored = @ \cup FindingIds(r.rows)]
    /\ pc' = [pc EXCEPT ![s] = phase_after("microservices")]
    /\ left_pending' = left_pending
    /\ UNCHANGED detached_vars
    /\ UNCHANGED <<scans, kind, agents, dbAgents, active_agents, active_scans,
                   active_sandboxes, docker_client, cancel_requested>>

existing_findings_agent_only(s) ==
    {findings[i].id : i \in {j \in FindingsOf(s) :
                                findings[j].created_by_agent # MicroservicesId}}

\* select(Finding).where(Finding.scan_id == scan_id): the committed rows of
\* the scan (the session factory sets autoflush=False).
existing_findings(s) ==
    {findings[i].id : i \in FindingsOf(s)}

\* _run_advanced_analysis, lines 517-536.
run_advanced_analysis(s) ==
    /\ s \in DOMAIN scans
    /\ pc[s] = "advanced"
    /\ drv' = [drv EXCEPT ![s].advanced = "ok",
                          ![s].existing_findings = existing_findings(s)]
    /\ pc' = [pc EXCEPT ![s] = phase_after("advanced")]
    /\ left_pending' = left_pending
    /\ UNCHANGED detached_vars
    /\ UNCHANGED <<scans, kind, findings, session, agents, dbAgents,
                   active_agents, active_scans, active_sandboxes,
                   docker_client, cancel_requested>>

completion_status_failing(pentest, microservices, advanced, report) ==
    IF microservices = "error" THEN "failed" ELSE "completed"

\* The status the driver writes after the four phases (line 386).
completion_status(pentest, microservices, advanced, report) == "completed"

\* _generate_comprehensive_report returned (a report or an error result),
\* then lines 385-395: COMPLETED, finished_at, summary, commit.
execute_comprehensive_scan_complete(s, rep) ==
    /\ s \in DOMAIN scans
    /\ pc[s] = "report"
    /\ drv' = [drv EXCEPT ![s].report = rep]
    /\ scans' = [scans EXCEPT
          ![s].status = completion_status(drv[s].pentest, drv[s].microservices,
                                          drv[s].advanced, rep),
          ![s].finished_at = utcnow,
          ![s].summary = [kind |-> "comprehensive",
                          phases_completed |-> 4,
                          ai_agent_results |-> drv[s].pentest,
                          microservices_results |-> drv[s].microservices,
                          advanced_results |-> drv[s].advanced,
                          report_generated |-> TRUE]]
    /\ findings' = findings \o Flush(session[s])
    /\ session' = [session EXCEPT ![s] = <<>>]
    /\ pc' = [pc EXCEPT ![s] = phase_after("report")]
    /\ left_pending' = LeftPending(scans')
    /\ UNCHANGED detached_vars
    /\ UNCHANGED <<kind, agents, dbAgents, active_agents, active_scans,
                   active_sandboxes, docker_client, cancel_requested>>

\* The driver's own commit (line 363 or line 395) raises: nothing of that
\* commit is written and the session drops what it held; the handler of
\* lines 399-407 fetches the scan, marks it FAILED with message and
\* finished_at, and commits.
execute_comprehensive_scan_except(s) ==
    /\ s \in DOMAIN scans
    /\ pc[s] \in {"driver", "report"}
    /\ scans' = [scans EXCEPT ![s].status = "failed",
                              ![s].error_message = "commit failed",
                              ![s].finished_at = utcnow]
    /\ session' = [session EXCEPT ![s] = <<>>]
    /\ pc' = [pc EXCEPT ![s] = "failed"]
    /\ left_pending' = LeftPending(scans')
    /\ UNCHANGED detached_vars
    /\ UNCHANGED <<kind, drv, findings, agents, dbAgents, active_agents,
                   active_scans, active_sandboxes, docker_client,
                   cancel_requested>>

\* --------------------------------------------------------- POST /start
\* start_simple_scan, lines 127-252: the demo findings are added, the scan
\* is set COMPLETED with both timestamps and a summary, one commit.
start_simple_scan_complete(s) ==
    /\ s \in DOMAIN scans
    /\ pc[s] = "demo"
    /\ findings' = findings \o
          Flush(session[s] \o [i \in 1..DemoFindingsCount |->
                                 [scan_id |-> s, created_by_agent |-> NoId]])
    /\ session' = [session EXCEPT ![s] = <<>>]
    /\ scans' = [scans EXCEPT ![s].status = "completed",
                              ![s].started_at = utcnow,
                              ![s].finished_at = utcnow,
                              ![s].summary = [kind |-> "simple",
                                              total_findings |-> DemoFindingsCount]]
    /\ pc' = [pc EXCEPT ![s] = "done"]
    /\ left_pending' = LeftPending(scans')
    /\ UNCHANGED detached_vars
    /\ UNCHANGED <<kind, drv, agents, dbAgents, active_agents, active_scans,
                   active_sandboxes, docker_client, cancel_requested>>

Next ==
    \/ create_scan
    \/ start_comprehensive_scan
    \/ start_simple_scan_create
    \/ \E s \in ScanIds : start_scan(s)
    \/ \E s \in ScanIds : start_scan_except(s)
    \/ \E s \in ScanIds : execute_agent_begin(s)
    \/ \E s \in ScanIds : execute_agent_sandbox_created(s)
    \/ \E s \in ScanIds : execute_agent_sandbox_except(s)
    \/ \E s \in ScanIds : \E result \in AgentResults(s) :
          execute_agent_return(s, result)
    \/ \E s \in ScanIds : cancel_scan(s)
    \/ \E s \in ScanIds : execute_comprehensive_scan_begin(s)
    \/ \E s \in ScanIds, out \in PentestOutcomes : run_ai_pentesting(s, out)
    \/ \E s \in ScanIds, out \in MicroservicesOutcomes :
          run_microservices_analysis(s, out)
    \/ \E s \in ScanIds : run_advanced_analysis(s)
    \/ \E s \in ScanIds, rep \in {"ok", "error"} :
          execute_comprehensive_scan_complete(s, rep)
    \/ \E s \in ScanIds : execute_comprehensive_scan_except(s)
    \/ \E s \in ScanIds : start_simple_scan_complete(s)

Spec == Init /\ [][Next]_vars
\* ------------------------------------------------- risk assessment
Min(a, b) == IF a <= b THEN a ELSE b

\* A score that is the weighted sum, without the cap.
risk_score_uncapped(critical_count, high_count, medium_count, low_count) ==
    critical_count * 10 + high_count * 7 + medium_count * 4 + low_count * 1

\* Lines 610-611.
risk_score(critical_count, high_count, medium_count, low_count) ==
    Min(critical_count * 10 + high_count * 7 + medium_count * 4
          + low_count * 1, 100)

\* Bands that exclude their lower bound.
risk_level_exclusive(score) ==
    IF score > 80 THEN "CRITICAL"
    ELSE IF score > 60 THEN "HIGH"
    ELSE IF score > 40 THEN "MEDIUM"
    ELSE "LOW"

\* Lines 614-621.
risk_level(score) ==
    IF score >= 80 THEN "CRITICAL"
    ELSE IF score >= 60 THEN "HIGH"
    ELSE IF score >= 40 THEN "MEDIUM"
    ELSE "LOW"

\* A combination check that already fires at two high findings.
high_risk_combinations_from_two(critical_count, high_count, total_findings) ==
    (IF critical_count > 0 /\ high_count >= 2
     THEN <<"Multiple critical and high severity findings">> ELSE <<>>)
    \o (IF total_findings > 20
        THEN <<"High volume of security findings">> ELSE <<>>)

\* Lines 624-630.
high_risk_combinations(critical_count, high_count, total_findings) ==
    (IF critical_count > 0 /\ high_count > 2
     THEN <<"Multiple critical and high severity findings">> ELSE <<>>)
    \o (IF total_findings > 20
        THEN <<"High volume of security findings">> ELSE <<>>)

\* _assess_risk_level, lines 599-641, for a list with f[sev] findings of
\* severity sev.
assess_risk_level(f) ==
    LET total_findings == f["critical"] + f["high"] + f["medium"] + f["low"]
                            + f["info"]
        critical_count == f["critical"]
        high_count == f["high"]
        medium_count == f["medium"]
        low_count == f["low"]
        score == risk_score(critical_count, high_count, medium_count, low_count)
    IN [total_findings |-> total_findings,
        critical_count |-> critical_count,
        high_count |-> high_count,
        medium_count |-> medium_count,
        low_count |-> low_count,
        risk_score |-> score,
        risk_level |-> risk_level(score),
        high_risk_combinations |->
            high_risk_combinations(critical_count, high_count, total_findings)]

\* Lines 429-430 of the orchestrator.
summary_risk_score(critical_count, high_count, medium_count, low_count) ==
    Min(critical_count * 10 + high_count * 7 + medium_count * 4
          + low_count * 1, 100)

\* Bands of a summary that starts HIGH at 70.
summary_risk_level_from_70(score) ==
    IF score >= 80 THEN "CRITICAL"
    ELSE IF score >= 70 THEN "HIGH"
    ELSE IF score >= 40 THEN "MEDIUM"
    ELSE "LOW"

\* Lines 433-440 of the orchestrator.
summary_risk_level(score) ==
    IF score >= 80 THEN "CRITICAL"
    ELSE IF score >= 60 THEN "HIGH"
    ELSE IF score >= 40 THEN "MEDIUM"
    ELSE "LOW"

\* MicroservicesOrchestrator._generate_analysis_summary, lines 420-460, for a
\* list with f[sev] findings of severity sev.  findings_by_type and
\* top_vulnerabilities depend on the findings' types and order, which this
\* representation of the list does not keep.
generate_analysis_summary(f) ==
    LET total_findings == f["critical"] + f["high"] + f["medium"] + f["low"]
                            + f["info"]
        critical_count == f["critical"]
        high_count == f["high"]
        medium_count == f["medium"]
        low_count == f["low"]
        score == summary_risk_score(critical_count, high_count, medium_count,
                                    low_count)
    IN [total_findings |-> total_findings,
        critical_count |-> critical_count,
        high_count |-> high_count,
        medium_count |-> medium_count,
        low_count |-> low_count,
        risk_score |-> score,
        risk_level |-> summary_risk_level(score)]

\* A findings list reaches _assess_risk_level.
RiskInit ==
    /\ ScanInit
    /\ assessed \in FindingCounts
    /\ risk_assessment = NoAssessment
    /\ analysis_summary = NoAssessment
    /\ AdvancedIdle
    /\ ProgressIdle
    /\ OrchestratorInit
    /\ CallerIdle

\* risk_assessment = await _assess_risk_level(existing_findings), line 526.
run_assess_risk_level ==
    /\ risk_assessment = NoAssessment
    /\ risk_assessment' = assess_risk_level(assessed)
    /\ UNCHANGED <<scan_vars, assessed, analysis_summary, advanced_vars,
                   progress_vars, orchestrator_vars, response>>

\* summary = self._generate_analysis_summary(all_findings), line 135.
run_generate_analysis_summary ==
    /\ analysis_summary = NoAssessment
    /\ analysis_summary' = generate_analysis_summary(assessed)
    /\ UNCHANGED <<scan_vars, assessed, risk_assessment, advanced_vars,
                   progress_vars, orchestrator_vars, response>>

RiskNext ==
    \/ run_assess_risk_level
    \/ run_generate_analysis_summary

RiskSpec == RiskInit /\ [][RiskNext]_vars

\* ------------------------------------------------- finding correlation
\* Text is a sequence of characters, so that lower() and the substring test
\* of Python's `in` are computed and not assumed.
UpperCase == <<"A", "B", "C", "D", "E", "F", "G", "H", "I", "J", "K", "L", "M",
               "N", "O", "P", "Q", "R", "S", "T", "U", "V", "W", "X", "Y", "Z">>
LowerCase == <<"a", "b", "c", "d", "e", "f", "g", "h", "i", "j", "k", "l", "m",
               "n", "o", "p", "q", "r", "s", "t", "u", "v", "w", "x", "y", "z">>

\* str.lower()
lower(text) ==
    [i \in 1..Len(text) |->
        IF \E k \in 1..Len(UpperCase) : UpperCase[k] = text[i]
        THEN LowerCase[CHOOSE k \in 1..Len(UpperCase) : UpperCase[k] = text[i]]
        ELSE text[i]]

\* sub in text
contains(sub, text) ==
    \E i \in 1..(Len(text) - Len(sub) + 1) :
        SubSeq(text, i, i + Len(sub) - 1) = sub

word_data == <<"d", "a", "t", "a">>
word_information == <<"i", "n", "f", "o", "r", "m", "a", "t", "i", "o", "n">>
word_session == <<"s", "e", "s", "s", "i", "o", "n">>

\* Titles and descriptions of the findings handed to the functions.
Texts ==
    {<<"U", "s", "e", "r", " ", "D", "a", "t", "a">>,
     <<"I", "N", "F", "O", "R", "M", "A", "T", "I", "O", "N">>,
     <<"S", "e", "s", "s", "i", "o", "n">>,
     <<"L", "o", "g", "i", "n">>}

FindingTypes == {"sql_injection", "xss", "other"}

\* The findings of a list.
Listed(listed) == {listed[i] : i \in 1..Len(listed)}

\* The positions of the list whose finding is one of hits, in list order:
\* [f for f in findings if ...], a finding standing for itself by position.
Matching(listed, hits) ==
    LET Hit(i) == listed[i] \in hits IN
    SelectSeq([i \in 1..Len(listed) |-> i], Hit)

\* Line 567: 'data' in f.title.lower() or 'information' in f.title.lower()
data_exposure_test(f) ==
    contains(word_data, lower(f.title)) \/ contains(word_information, lower(f.title))

\* Line 578: 'session' in f.title.lower()
session_test(f) == contains(word_session, lower(f.title))

sql_injection_test(f) == f.finding_type = "sql_injection"
xss_test(f) == f.finding_type = "xss"

\* _correlate_findings, lines 543-592.
correlate_findings(listed) ==
    LET sql_injection == Matching(listed, {f \in Listed(listed) : sql_injection_test(f)})
        data_exposure == Matching(listed, {f \in Listed(listed) : data_exposure_test(f)})
        xss_findings == Matching(listed, {f \in Listed(listed) : xss_test(f)})
        session_findings == Matching(listed, {f \in Listed(listed) : session_test(f)})
        attack_chains ==
            (IF sql_injection # <<>> /\ data_exposure # <<>>
             THEN <<[chain |-> "SQL Injection -> Data Exfiltration",
                     findings |-> sql_injection \o data_exposure,
                     risk_level |-> "high"]>>
             ELSE <<>>)
            \o (IF xss_findings # <<>> /\ session_findings # <<>>
                THEN <<[chain |-> "XSS -> Session Hijacking",
                        findings |-> xss_findings \o session_findings,
                        risk_level |-> "high"]>>
                ELSE <<>>)
    IN [findings_by_type |->
            [ty \in {listed[i].finding_type : i \in 1..Len(listed)} |->
                Cardinality({i \in 1..Len(listed) : listed[i].finding_type = ty})],
        findings_by_severity |->
            [sev \in {listed[i].severity : i \in 1..Len(listed)} |->
                Cardinality({i \in 1..Len(listed) : listed[i].severity = sev})],
        attack_chains |-> attack_chains,
        correlation_score |-> Len(attack_chains) * 10]

\* The findings a correlation run may be handed.
CorrelatedFindings ==
    [finding_type : FindingTypes, severity : {"high"},
     title : Texts, description : Texts]

FindingListsOf(S, n) == UNION {[1..k -> S] : k \in 0..n}

CorrelateInit ==
    /\ ScanInit
    /\ AssessmentIdle
    /\ finding_list \in FindingListsOf(CorrelatedFindings, MaxListed)
    /\ correlation_results = NoAssessment
    /\ recommendations = NoRecommendations
    /\ ProgressIdle
    /\ OrchestratorInit
    /\ CallerIdle

\* correlation_results = await _correlate_findings(existing_findings), line 523.
run_correlate_findings ==
    /\ correlation_results = NoAssessment
    /\ correlation_results' = correlate_findings(finding_list)
    /\ UNCHANGED <<scan_vars, assessment_vars, finding_list, recommendations,
                   progress_vars, orchestrator_vars, response>>

CorrelateNext == run_correlate_findings

CorrelateSpec == CorrelateInit /\ [][CorrelateNext]_vars

\* ------------------------------------------- security recommendations
critical_line ==
    "Immediately address all critical severity findings as they pose the highest risk."
sql_injection_line ==
    "Implement parameterized queries and input validation to prevent SQL injection attacks."
xss_line ==
    "Implement proper input validation and output encoding to prevent XSS attacks."

\* Lines 667-674.
general_recommendations ==
    <<"Conduct regular security assessments and penetration testing.",
      "Implement a Web Application Firewall (WAF) for additional protection.",
      "Establish security awareness training for development teams.",
      "Implement a secure development lifecycle (SDL) process.",
      "Regularly update and patch all software components.",
      "Implement comprehensive logging and monitoring for security events.">>

critical_test(f) == f.severity = "critical"

\* A generator that adds the specific line once per matching finding.
generate_security_recommendations_per_finding(listed) ==
    [i \in 1..Len(Matching(listed, {f \in Listed(listed) : critical_test(f)})) |-> critical_line]
    \o [i \in 1..Len(Matching(listed, {f \in Listed(listed) : sql_injection_test(f)})) |-> sql_injection_line]
    \o [i \in 1..Len(Matching(listed, {f \in Listed(listed) : xss_test(f)})) |-> xss_line]
    \o general_recommendations

\* _generate_security_recommendations, lines 648-676.
generate_security_recommendations(listed) ==
    (IF Matching(listed, {f \in Listed(listed) : critical_test(f)}) # <<>> THEN <<critical_line>> ELSE <<>>)
    \o (IF Matching(listed, {f \in Listed(listed) : sql_injection_test(f)}) # <<>>
        THEN <<sql_injection_line>> ELSE <<>>)
    \o (IF Matching(listed, {f \in Listed(listed) : xss_test(f)}) # <<>> THEN <<xss_line>> ELSE <<>>)
    \o general_recommendations

\* The findings a recommendation run may be handed.
RecommendedFindings ==
    [finding_type : FindingTypes, severity : Severity,
     title : {<<"L", "o", "g", "i", "n">>},
     description : {<<"L", "o", "g", "i", "n">>}]

RecommendInit ==
    /\ ScanInit
    /\ AssessmentIdle
    /\ finding_list \in FindingListsOf(RecommendedFindings, MaxListed)
    /\ correlation_results = NoAssessment
    /\ recommendations = NoRecommendations
    /\ ProgressIdle
    /\ OrchestratorInit
    /\ CallerIdle

\* recommendations = await _generate_security_recommendations(existing_findings),
\* line 529.
run_generate_security_recommendations ==
    /\ recommendations = NoRecommendations
    /\ recommendations' = generate_security_recommendations(finding_list)
    /\ UNCHANGED <<scan_vars, assessment_vars, finding_list,
                   correlation_results, progress_vars, orchestrator_vars,
                   response>>

RecommendNext == run_generate_security_recommendations

RecommendSpec == RecommendInit /\ [][RecommendNext]_vars

\* ------------------------------------------------- progress estimate
\* int(x) of Python truncates toward zero; n and d are integers, d > 0.
int_quotient(n, d) == IF n >= 0 THEN n \div d ELSE -((-n) \div d)

\* Lines 803-813.  elapsed is (datetime.now() - scan.started_at) in whole
\* seconds; int(elapsed / 60 * 10) is the truncated quotient of elapsed * 10
\* by 60.
comprehensive_scan_progress(scan, elapsed) ==
    IF scan.status = "completed" THEN 100
    ELSE IF scan.status = "running"
         THEN IF scan.started_at # NoTime
              THEN Min(int_quotient(elapsed * 10, 60), 90)
              ELSE 10
         ELSE 0

\* A comprehensive-status request finds a scan row and reads the clock.
\* started_at is written with datetime.utcnow() by start_scan and with
\* datetime.now() by the driver, and is compared with datetime.now() here, so
\* the difference may have either sign (local time behind UTC, or the wall
\* clock set back).
StatusQueries ==
    [status : ScanStatus, started_at : {utcnow}, elapsed : (-MaxElapsed)..MaxElapsed]
    \cup [status : ScanStatus, started_at : {NoTime}, elapsed : {0}]

ProgressInit ==
    /\ ScanInit
    /\ AssessmentIdle
    /\ AdvancedIdle
    /\ status_query \in StatusQueries
    /\ progress = NoProgress
    /\ OrchestratorInit
    /\ CallerIdle

\* get_comprehensive_scan_status, lines 769-828.
get_comprehensive_scan_status ==
    /\ progress = NoProgress
    /\ progress' =
          [status |-> status_query.status,
           progress |-> comprehensive_scan_progress(status_query, status_query.elapsed)]
    /\ UNCHANGED <<scan_vars, assessment_vars, advanced_vars, status_query,
                   orchestrator_vars, response>>

ProgressNext == get_comprehensive_scan_status

ProgressSpec == ProgressInit /\ [][ProgressNext]_vars

\* ------------------------------------------- microservices orchestrator
\* The sub-analyses in the order start_comprehensive_analysis dispatches them.
SubAnalyses ==
    <<"vulnerability_scanning", "network_analysis", "code_analysis",
      "compliance_checking", "threat_intelligence">>

\* analysis_config: the set of sub-analyses whose enable_ flag is true, and
\* generate_report.
AnalysisConfigs ==
    [enabled : SUBSET {SubAnalyses[i] : i \in 1..Len(SubAnalyses)},
     generate_report : BOOLEAN]

\* analysis_id = str(uuid.uuid4())
AnalysisId == <<"analysis", 1>>

\* tasks, lines 78-113.
dispatched(config) ==
    LET Enabled(name) == name \in config.enabled IN
    SelectSeq(SubAnalyses, Enabled)

\* What one task contributes to the list asyncio.gather returns: the error
\* result of a _run_* method, the CancelledError of a cancelled task, or the
\* service's result with a findings list.
error_result == [kind |-> "error"]
cancelled_error == [kind |-> "exception"]
service_result(name, n) ==
    [kind |-> "result",
     findings |-> [k \in 1..n |-> [source |-> name, index |-> k]]]

TaskOutcomes ==
    {<<"error">>, <<"exception">>} \cup {<<"result", n>> : n \in 0..MaxSubFindings}

\* One outcome per sub-analysis; those of the sub-analyses that were not
\* dispatched play no part.
GatherOutcomes == [1..Len(SubAnalyses) -> TaskOutcomes]

position(name) == CHOOSE i \in 1..Len(SubAnalyses) : SubAnalyses[i] = name

gathered(tasks, out) ==
    [i \in 1..Len(tasks) |->
        LET o == out[position(tasks[i])] IN
        IF o = <<"error">> THEN error_result
        ELSE IF o = <<"exception">> THEN cancelled_error
        ELSE service_result(tasks[i], o[2])]

\* An aggregation that gives up at the first result without findings.
RECURSIVE all_findings_until_failure(_)
all_findings_until_failure(results) ==
    IF results = <<>> \/ Head(results).kind # "result" THEN <<>>
    ELSE Head(results).findings \o all_findings_until_failure(Tail(results))

\* all_findings, lines 129-132.
RECURSIVE all_findings(_)
all_findings(results) ==
    IF results = <<>> THEN <<>>
    ELSE (IF Head(results).kind = "result" THEN Head(results).findings ELSE <<>>)
         \o all_findings(Tail(results))

OrchestratorSpecInit ==
    /\ ScanInit
    /\ AssessmentIdle
    /\ AdvancedIdle
    /\ ProgressIdle
    /\ OrchestratorInit
    /\ CallerIdle

\* start_comprehensive_analysis, lines 62-122: the session is created, the
\* enabled sub-analyses are dispatched, the analysis is registered in
\* active_tasks and the call waits in asyncio.gather.
start_comprehensive_analysis(config) ==
    /\ analysis_pc = "idle"
    /\ analysis_session' =
          [id |-> AnalysisId, status |-> "running", findings |-> <<>>,
           tasks |-> dispatched(config),
           generate_report |-> config.generate_report]
    /\ active_tasks' = active_tasks \cup {AnalysisId}
    /\ analysis_pc' = "gather"
    /\ UNCHANGED <<scan_vars, assessment_vars, advanced_vars, progress_vars,
                   analysis_results, analysis_returned, response>>

\* The value returned at lines 146-152.
completed_return(all) ==
    [analysis_id |-> AnalysisId, status |-> "completed", findings |-> all]

\* gather returned, lines 122-142.  A task yields a CancelledError only when
\* cancel_analysis cancelled it before it was done.
start_comprehensive_analysis_gathered(out) ==
    /\ analysis_pc = "gather"
    /\ \A i \in DOMAIN out :
          SubAnalyses[i] \notin {analysis_session.tasks[k] :
                                   k \in 1..Len(analysis_session.tasks)}
             => out[i] = <<"error">>
    /\ (\E i \in DOMAIN out : out[i] = <<"exception">>) =>
          analysis_session.status = "cancelled"
    /\ LET results == gathered(analysis_session.tasks, out)
           all == all_findings(results) IN
        /\ analysis_results' = results
        /\ analysis_session' = [analysis_session EXCEPT !.status = "completed",
                                                        !.findings = all]
        /\ IF analysis_session.generate_report
           THEN analysis_pc' = "report" /\ UNCHANGED analysis_returned
           ELSE analysis_pc' = "returned"
                   /\ analysis_returned' = completed_return(all)
    /\ UNCHANGED <<scan_vars, assessment_vars, advanced_vars, progress_vars,
                   active_tasks, response>>

\* The report task finished, lines 142-152.
start_comprehensive_analysis_return ==
    /\ analysis_pc = "report"
    /\ analysis_pc' = "returned"
    /\ analysis_returned' = completed_return(analysis_session.findings)
    /\ UNCHANGED <<scan_vars, assessment_vars, advanced_vars, progress_vars,
                   active_tasks, analysis_session, analysis_results, response>>

\* cancel_analysis, lines 496-523, for an analysis found in active_tasks.
cancel_analysis ==
    /\ AnalysisId \in active_tasks
    /\ analysis_session' = [analysis_session EXCEPT !.status = "cancelled"]
    /\ active_tasks' = active_tasks \ {AnalysisId}
    /\ UNCHANGED <<scan_vars, assessment_vars, advanced_vars, progress_vars,
                   analysis_pc, analysis_results, analysis_returned, response>>

OrchestratorNext ==
    \/ \E config \in AnalysisConfigs : start_comprehensive_analysis(config)
    \/ \E out \in GatherOutcomes : start_comprehensive_analysis_gathered(out)
    \/ start_comprehensive_analysis_return
    \/ cancel_analysis

OrchestratorSpec == OrchestratorSpecInit /\ [][OrchestratorNext]_vars

\* ------------------------------------------ calls with an unknown scan id
\* The ids a caller can pass: those the scans table can hold and one more.
RequestedIds == 1..(MaxScans + 1)

\* db.query(Scan).filter(Scan.id == scan_id).first() found no row.
scan_not_found(scan_id) == scan_id \notin DOMAIN scans

\* ValueError(f"Scan {scan_id} not found") re-raised by start_scan's handler.
scan_not_found_error(call, scan_id) ==
    [call |-> call, scan_id |-> scan_id, kind |-> "raised",
     error |-> "Scan not found"]

\* {"error": "Scan not found"}
scan_not_found_result(call, scan_id) ==
    [call |-> call, scan_id |-> scan_id, kind |-> "returned",
     error |-> "Scan not found"]

\* A start_scan that stores the scan info before it looks the scan up.
start_scan_stored_before_lookup(scan_id) == {scan_id}

\* What start_scan has stored in active_scans when line 40 raises: nothing,
\* the store of line 48 comes after the lookup.
start_scan_stored(scan_id) == {}

\* start_scan, lines 38-40 and the handler of lines 71-78: scan is None, so
\* the handler marks nothing and re-raises.
start_scan_not_found(scan_id) ==
    /\ scan_not_found(scan_id)
    /\ active_scans' = active_scans \cup start_scan_stored(scan_id)
    /\ response' = scan_not_found_error("start_scan", scan_id)
    /\ UNCHANGED <<scans, kind, pc, drv, findings, session, agents, dbAgents,
                   active_agents, active_sandboxes, docker_client,
                   cancel_requested, left_pending>>
    /\ UNCHANGED <<assessment_vars, advanced_vars, progress_vars,
                   orchestrator_vars>>

\* cancel_scan, lines 254-257.
cancel_scan_not_found(scan_id) ==
    /\ scan_not_found(scan_id)
    /\ response' = scan_not_found_result("cancel_scan", scan_id)
    /\ UNCHANGED <<scan_vars, assessment_vars, advanced_vars, progress_vars,
                   orchestrator_vars>>

\* get_scan_status, lines 209-211.
get_scan_status_not_found(scan_id) ==
    /\ scan_not_found(scan_id)
    /\ response' = scan_not_found_result("get_scan_status", scan_id)
    /\ UNCHANGED <<scan_vars, assessment_vars, advanced_vars, progress_vars,
                   orchestrator_vars>>

LookupInit ==
    /\ ScanInit
    /\ AssessmentIdle
    /\ AdvancedIdle
    /\ ProgressIdle
    /\ OrchestratorInit
    /\ CallerIdle

\* The AgentManager at work on the scans of POST /scans, with callers that
\* pass ids of no scan.
LookupNext ==
    \/ create_scan
    \/ \E s \in ScanIds : start_scan(s)
    \/ \E s \in ScanIds : start_scan_except(s)
    \/ \E s \in ScanIds : execute_agent_begin(s)
    \/ \E s \in ScanIds : execute_agent_sandbox_created(s)
    \/ \E s \in ScanIds : execute_agent_sandbox_except(s)
    \/ \E s \in ScanIds : \E result \in AgentResults(s) :
          execute_agent_return(s, result)
    \/ \E s \in ScanIds : cancel_scan(s)
    \/ \E scan_id \in RequestedIds : start_scan_not_found(scan_id)
    \/ \E scan_id \in RequestedIds : cancel_scan_not_found(scan_id)
    \/ \E scan_id \in RequestedIds : get_scan_status_not_found(scan_id)

LookupSpec == LookupInit /\ [][LookupNext]_vars

\* ================================================================ claims
FindingsOfIn(tbl, s) == {i \in 1..Len(tbl) : tbl[i].scan_id = s}

CreatedBy(s, by) ==
    {i \in FindingsOf(s) : findings[i].created_by_agent = by}

\* C1: once a scan is COMPLETED, FAILED or CANCELLED, no later step changes
\* its status or adds a finding to it.
C1_TerminalStateStable ==
    [][\A s \in DOMAIN scans :
          scans[s].status \in TerminalStatus =>
             /\ scans'[s].status = scans[s].status
             /\ FindingsOfIn(findings', s) = FindingsOfIn(findings, s)]_vars

\* C2: a scan started by start_scan is not left RUNNING once its root agent
\* is COMPLETED, FAILED or CANCELLED: absent a cancel request the scan is then
\* COMPLETED or FAILED.
C2_ScanFinishesWithRootAgent ==
    \A s \in DOMAIN scans :
        (/\ AgentId(s) \in DOMAIN agents
         /\ agents[AgentId(s)].status \in TerminalStatus
         /\ s \notin cancel_requested)
        => scans[s].status \in {"completed", "failed"}

\* C3: cancel_scan on a RUNNING scan sets it CANCELLED with finished_at and
\* leaves no agent of the scan RUNNING: each agent that was RUNNING, the root
\* agent included, is CANCELLED with finished_at set.
C3_CancelStopsAgents ==
    [][\A s \in DOMAIN scans :
          (scans[s].status = "running" /\ cancel_scan(s)) =>
             /\ scans'[s].status = "cancelled"
             /\ scans'[s].finished_at # NoTime
             /\ \A a \in DOMAIN agents :
                   (agents[a].scan_id = s /\ agents[a].status = "running") =>
                      /\ agents'[a].status = "cancelled"
                      /\ agents'[a].finished_at # NoTime]_vars

\* C4: cancel_scan on a scan that is not RUNNING changes neither the scan's
\* status, nor its finished_at, nor any agent record.
C4_CancelOnlyWhenRunning ==
    [][\A s \in DOMAIN scans :
          (scans[s].status # "running" /\ cancel_scan(s)) =>
             /\ scans'[s].status = scans[s].status
             /\ scans'[s].finished_at = scans[s].finished_at
             /\ agents' = agents]_vars

\* C5: when the Microservices-Analysis phase of the driver fails, the
\* findings already stored stay in the store and Advanced-Analysis is next;
\* the driver's completion step then sets the scan COMPLETED with a summary
\* whose microservices entry is the error, after Advanced-Analysis and
\* Report-Generation have run; the scan becomes FAILED only in the handler of
\* the driver's own exception.
C5_MicroservicesFailureIsLocal ==
    [][\A s \in DOMAIN scans :
          /\ drv'[s].microservices = "error" =>
                SubSeq(findings', 1, Len(findings)) = findings
          /\ (drv[s].microservices = "none" /\ drv'[s].microservices = "error") =>
                pc'[s] = "advanced"
          /\ (drv[s].microservices = "error" /\ pc[s] = "report"
                /\ pc'[s] = "done") =>
                /\ scans'[s].status = "completed"
                /\ scans'[s].summary.kind = "comprehensive"
                /\ scans'[s].summary.microservices_results = "error"
                /\ drv'[s].advanced # "none"
                /\ drv'[s].report # "none"
                /\ \A i \in CreatedBy(s, PentestAgentId(s)) : findings'[i] = findings[i]
          /\ (drv[s].microservices = "error" /\ scans[s].status # "failed"
                /\ scans'[s].status = "failed") =>
                execute_comprehensive_scan_except(s)]_vars

C5_Witness ==
    \E s \in DOMAIN scans :
        /\ kind[s] = "comprehensive"
        /\ pc[s] = "done"
        /\ drv[s].pentest = "ok"
        /\ drv[s].microservices = "error"
        /\ CreatedBy(s, PentestAgentId(s)) # {}
        /\ scans[s].status = "completed"
        /\ scans[s].summary.kind = "comprehensive"
        /\ scans[s].summary.microservices_results = "error"

C7_PhaseOrder ==
    \A s \in DOMAIN scans :
        /\ (pc[s] = "advanced" \/ drv[s].advanced # "none") =>
              (drv[s].pentest # "none" /\ drv[s].microservices # "none")
        /\ (pc[s] = "report" \/ drv[s].report # "none") =>
              drv[s].advanced # "none"

C7_Witness ==
    \E s \in DOMAIN scans :
        /\ pc[s] = "report"
        /\ drv[s].pentest # "none"
        /\ drv[s].microservices # "none"
        /\ drv[s].advanced # "none"

\* C8: the finding set Advanced-Analysis read contains every finding that the
\* Agent-Pentest and Microservices-Analysis phases of the run stored.
C8_AdvancedReadsAllStored ==
    \A s \in DOMAIN scans :
        drv[s].advanced # "none" =>
            drv[s].phase_stored \subseteq drv[s].existing_findings

C8_Witness ==
    \E s \in DOMAIN scans :
        /\ drv[s].advanced # "none"
        /\ \E i \in CreatedBy(s, PentestAgentId(s)) :
              findings[i].id \in drv[s].phase_stored \cap drv[s].existing_findings
        /\ \E i \in CreatedBy(s, MicroservicesId) :
              findings[i].id \in drv[s].phase_stored \cap drv[s].existing_findings

\* C9: started_at is set exactly for the scans that have ever left PENDING,
\* and finished_at exactly for the scans that are COMPLETED, FAILED or
\* CANCELLED.
C9_TimestampsMatchStatus ==
    \A s \in DOMAIN scans :
        /\ (scans[s].started_at # NoTime) <=> (s \in left_pending)
        /\ (scans[s].finished_at # NoTime) <=> (scans[s].status \in TerminalStatus)

\* C10: starting a scan that is not PENDING does not set it RUNNING, does not
\* overwrite started_at and creates no further root agent.
C10_StartOnlyWhenPending ==
    [][\A s \in DOMAIN scans :
          (scans[s].status # "pending"
             /\ (start_scan(s) \/ execute_comprehensive_scan_begin(s))) =>
             /\ scans'[s].status = scans[s].status
             /\ scans'[s].started_at = scans[s].started_at
             /\ DOMAIN agents' = DOMAIN agents]_vars

\* C11: after start_scan has returned successfully, exactly one root agent of
\* the scan is a persisted agent record, so get_scan_agents returns it.
C11_RootAgentPersisted ==
    \A s \in DOMAIN scans :
        (kind[s] = "agent" /\ pc[s] # "start_scan"
           /\ AgentId(s) \in DOMAIN agents)
        => /\ Cardinality(get_scan_agents(s)) = 1
           /\ AgentId(s) \in get_scan_agents(s)

C13_ExecutionContextReleased ==
    \A s \in DOMAIN scans :
        (AgentId(s) \in DOMAIN agents /\ pc[s] = "done")
        => /\ AgentId(s) \notin active_sandboxes
           /\ AgentId(s) \notin active_agents

\* C14: when sandbox acquisition, agent construction or the agent's task
\* raises, _execute_agent ends with the agent FAILED, error_message set to the
\* exception's message and finished_at set, and the Finding Store holds no
\* finding of that agent.
C14_FailedAgentRecorded ==
    \A s \in DOMAIN scans :
        (AgentId(s) \in DOMAIN agents /\ agents[AgentId(s)].status = "failed")
        => /\ pc[s] = "done"
           /\ agents[AgentId(s)].error_message \in {"docker error", "'workspace_id'"}
           /\ agents[AgentId(s)].finished_at # NoTime
           /\ agents[AgentId(s)].final_result = NoResult
           /\ CreatedBy(s, AgentId(s)) = {}

C14_Witness ==
    \E s \in DOMAIN scans :
        /\ AgentId(s) \in DOMAIN agents
        /\ agents[AgentId(s)].status = "failed"
        /\ agents[AgentId(s)].error_message = "'workspace_id'"
        /\ pc[s] = "done"

C16_ErrorMessageIffFailed ==
    \A s \in DOMAIN scans :
        (scans[s].error_message # NoError) <=> (scans[s].status = "failed")

\* C17: a scan's summary is unset while the scan is PENDING or RUNNING; it is
\* written only by a step that sets the scan COMPLETED, and once written it
\* is never changed.
C17_SummaryWrittenOnceAtCompletion ==
    [][\A s \in DOMAIN scans :
          /\ scans'[s].status \in {"pending", "running"} =>
                scans'[s].summary = NoSummary
          /\ scans'[s].summary # scans[s].summary =>
                /\ scans[s].summary = NoSummary
                /\ scans[s].status # "completed"
                /\ scans'[s].status = "completed"]_vars

\* C18: for every finding list _assess_risk_level returns
\* risk_score = min(100, 10*critical + 7*high + 4*medium + 1*low), info
\* findings adding nothing; so the score lies in 0..100 and one more finding
\* of any severity never lowers it.
C18_RiskScoreFormula ==
    risk_assessment # NoAssessment =>
        LET weighted == 10 * assessed["critical"] + 7 * assessed["high"]
                          + 4 * assessed["medium"] + assessed["low"] IN
        /\ risk_assessment.risk_score = IF weighted > 100 THEN 100 ELSE weighted
        /\ risk_assessment.risk_score \in 0..100
        /\ \A sev \in Severity :
              assess_risk_level([assessed EXCEPT ![sev] = @ + 1]).risk_score
                 >= risk_assessment.risk_score
        /\ assess_risk_level([assessed EXCEPT !["info"] = 0]).risk_score
              = risk_assessment.risk_score

\* A list whose weighted sum exceeds the cap, info findings among it.
C18_Witness ==
    /\ risk_assessment # NoAssessment
    /\ 10 * assessed["critical"] + 7 * assessed["high"]
          + 4 * assessed["medium"] + assessed["low"] > 100
    /\ assessed["info"] > 0
    /\ risk_assessment.risk_score = 100

\* C19: risk_level is CRITICAL exactly for scores of at least 80, HIGH
\* exactly for 60..79, MEDIUM exactly for 40..59 and LOW exactly below 40.
C19_RiskLevelBands ==
    risk_assessment # NoAssessment =>
        LET score == risk_assessment.risk_score
            level == risk_assessment.risk_level IN
        /\ (level = "CRITICAL") <=> (score >= 80)
        /\ (level = "HIGH") <=> (score \in 60..79)
        /\ (level = "MEDIUM") <=> (score \in 40..59)
        /\ (level = "LOW") <=> (score < 40)

\* A score on the lower bound of the CRITICAL band.
C19_Witness ==
    /\ risk_assessment # NoAssessment
    /\ risk_assessment.risk_score = 80
    /\ risk_assessment.risk_level = "CRITICAL"

\* C20: 'Multiple critical and high severity findings' is reported exactly
\* when critical_count > 0 and high_count > 2, and 'High volume of security
\* findings' exactly when there are more than 20 findings; the flags leave
\* risk_score and risk_level what the counts alone make them.
C20_HighRiskCombinations ==
    risk_assessment # NoAssessment =>
        LET flags == {risk_assessment.high_risk_combinations[i] :
                        i \in DOMAIN risk_assessment.high_risk_combinations}
            total == assessed["critical"] + assessed["high"]
                       + assessed["medium"] + assessed["low"] + assessed["info"]
            weighted == 10 * assessed["critical"] + 7 * assessed["high"]
                          + 4 * assessed["medium"] + assessed["low"] IN
        /\ ("Multiple critical and high severity findings" \in flags)
              <=> (assessed["critical"] > 0 /\ assessed["high"] > 2)
        /\ ("High volume of security findings" \in flags) <=> (total > 20)
        /\ flags \subseteq {"Multiple critical and high severity findings",
                            "High volume of security findings"}
        /\ risk_assessment.risk_score = IF weighted > 100 THEN 100 ELSE weighted
        /\ risk_assessment.risk_level = risk_level(risk_assessment.risk_score)
        /\ (assessed["critical"] = 2 /\ assessed["high"] = 3
              /\ assessed["medium"] = 0 /\ assessed["low"] = 0) =>
              /\ risk_assessment.risk_score = 41
              /\ risk_assessment.risk_level = "MEDIUM"

\* Two critical and three high findings, nothing else.
C20_Witness ==
    /\ risk_assessment # NoAssessment
    /\ assessed = [NoFindings EXCEPT !["critical"] = 2, !["high"] = 3]
    /\ risk_assessment.high_risk_combinations =
          <<"Multiple critical and high severity findings">>
    /\ risk_assessment.risk_score = 41
    /\ risk_assessment.risk_level = "MEDIUM"

ChainsNamed(name) ==
    {k \in 1..Len(correlation_results.attack_chains) :
        correlation_results.attack_chains[k].chain = name}

Mentions(f, word) ==
    contains(word, lower(f.title)) \/ contains(word, lower(f.description))

\* C21: _correlate_findings emits 'SQL Injection -> Data Exfiltration' exactly
\* when some finding has type sql_injection and some finding's title or
\* description contains 'data' or 'information', and 'XSS -> Session
\* Hijacking' exactly when some finding has type xss and some finding's title
\* or description contains 'session', case-insensitively; each rule emits at
\* most one chain, every chain has risk_level 'high', no findings no chain.
C21_AttackChainRules ==
    correlation_results # NoAssessment =>
        LET F == {finding_list[i] : i \in 1..Len(finding_list)} IN
        /\ (ChainsNamed("SQL Injection -> Data Exfiltration") # {})
              <=> /\ \E f \in F : f.finding_type = "sql_injection"
                  /\ \E f \in F : Mentions(f, word_data) \/ Mentions(f, word_information)
        /\ (ChainsNamed("XSS -> Session Hijacking") # {})
              <=> /\ \E f \in F : f.finding_type = "xss"
                  /\ \E f \in F : Mentions(f, word_session)
        /\ Cardinality(ChainsNamed("SQL Injection -> Data Exfiltration")) <= 1
        /\ Cardinality(ChainsNamed("XSS -> Session Hijacking")) <= 1
        /\ \A k \in 1..Len(correlation_results.attack_chains) :
              correlation_results.attack_chains[k].risk_level = "high"
        /\ finding_list = <<>> => correlation_results.attack_chains = <<>>

\* C22: the findings of an emitted chain are the union of the findings
\* matched by the rule's precondition and by its postcondition, each matched
\* finding appearing exactly once.
C22_ChainFindingsAreUnion ==
    correlation_results # NoAssessment =>
        \A k \in 1..Len(correlation_results.attack_chains) :
            LET c == correlation_results.attack_chains[k]
                Pre(f) == IF c.chain = "SQL Injection -> Data Exfiltration"
                          THEN f.finding_type = "sql_injection"
                          ELSE f.finding_type = "xss"
                Post(f) == IF c.chain = "SQL Injection -> Data Exfiltration"
                           THEN contains(word_data, lower(f.title))
                                  \/ contains(word_information, lower(f.title))
                           ELSE contains(word_session, lower(f.title))
                matched == {i \in 1..Len(finding_list) :
                               Pre(finding_list[i]) \/ Post(finding_list[i])}
            IN /\ {c.findings[j] : j \in 1..Len(c.findings)} = matched
               /\ \A i \in matched :
                     Cardinality({j \in 1..Len(c.findings) : c.findings[j] = i}) = 1

C24_ProgressEstimate ==
    progress # NoProgress =>
        LET q == status_query IN
        /\ (progress.progress = 100) <=> (q.status = "completed")
        /\ (q.status = "running" /\ q.started_at = NoTime) =>
              progress.progress = 10
        /\ (q.status = "running" /\ q.started_at # NoTime /\ q.elapsed >= 0) =>
              /\ progress.progress =
                    (IF (q.elapsed * 10) \div 60 < 90
                     THEN (q.elapsed * 10) \div 60 ELSE 90)
              /\ comprehensive_scan_progress(q, q.elapsed + 1) >= progress.progress
        /\ q.status # "completed" => progress.progress \in 0..90

\* C30: for every multiset of findings with severities in {critical, high,
\* medium, low, info}, _generate_analysis_summary and _assess_risk_level
\* return the same total, the same four severity counts, the same risk_score
\* and the same risk_level.
C30_RiskScorersAgree ==
    (risk_assessment # NoAssessment /\ analysis_summary # NoAssessment) =>
        /\ analysis_summary.total_findings = risk_assessment.total_findings
        /\ analysis_summary.critical_count = risk_assessment.critical_count
        /\ analysis_summary.high_count = risk_assessment.high_count
        /\ analysis_summary.medium_count = risk_assessment.medium_count
        /\ analysis_summary.low_count = risk_assessment.low_count
        /\ analysis_summary.risk_score = risk_assessment.risk_score
        /\ analysis_summary.risk_level = risk_assessment.risk_level

\* Both scorers have run on a list that scores in the HIGH band and holds an
\* info finding.
C30_Witness ==
    /\ risk_assessment # NoAssessment
    /\ analysis_summary # NoAssessment
    /\ assessed["info"] > 0
    /\ risk_assessment.risk_score \in 60..69
    /\ analysis_summary.risk_level = "HIGH"

\* The sub-analyses of the analysis that returned a result with findings.
Contributing ==
    {i \in 1..Len(analysis_results) : analysis_results[i].kind = "result"}

\* The place of a finding in the dispatch order: the position of its
\* sub-analysis among the dispatched tasks, then its index in that result.
DispatchPlace(f) ==
    LET i == CHOOSE k \in 1..Len(analysis_session.tasks) :
                 analysis_session.tasks[k] = f.source
    IN <<i, f.index>>

Before(p, q) == p[1] < q[1] \/ (p[1] = q[1] /\ p[2] < q[2])

C26_SessionDestroyed ==
    analysis_pc = "returned" => AnalysisId \notin active_tasks

\* C28: once cancel_analysis has set the session status to 'cancelled' while
\* start_comprehensive_analysis waits for its sub-analyses, no step sets the
\* status to 'completed' and the call does not return status 'completed'.
C28_CancelNotOverridden ==
    [][(analysis_pc = "gather" /\ analysis_session.status = "cancelled") =>
          /\ analysis_session'.status # "completed"
          /\ analysis_returned' = NoReturn \/ analysis_returned'.status # "completed"]_vars

C27_UnknownIdChangesNothing ==
    [][\A scan_id \in RequestedIds :
          (\/ start_scan_not_found(scan_id)
           \/ cancel_scan_not_found(scan_id)
           \/ get_scan_status_not_found(scan_id)) =>
             /\ response'.scan_id = scan_id
             /\ response'.kind \in {"raised", "returned"}
             /\ response'.error = "Scan not found"
             /\ UNCHANGED <<scans, agents, dbAgents, findings, session,
                            active_scans, active_agents>>]_vars

\* start_scan raised for an unknown id while a scan is RUNNING with its
\* agent registered and another call had findings stored.
C27_Witness ==
    /\ response.kind = "raised"
    /\ response.call = "start_scan"
    /\ response.scan_id \notin DOMAIN scans
    /\ active_scans # {}
    /\ active_agents # {}
    /\ \E s \in DOMAIN scans : scans[s].status = "running"
====
